---- MODULE Spec2Model ----
(***************************************************************************)
(* Model of app/parse.py: the quote scraper.                               *)
(*                                                                         *)
(* Strings that the code inspects character by character (URLs, hrefs,     *)
(* author names, the keywords attribute, the born-location text) are       *)
(* sequences of one-character strings.  Python's None is the empty         *)
(* sequence <<>> and a present value x is <<x>> wherever a value is        *)
(* optional (an element select_one may not find, an attribute a tag may    *)
(* lack, the Optional[str] of get_next_page).                              *)
(*                                                                         *)
(* The web site is part of the state: a chain of listing pages, each a     *)
(* list of quote fragments and an optional "next" anchor.  Every HTTP      *)
(* request may fail (requests.RequestException) independently of every     *)
(* other request.  The rendering of a row by csv.writer is not modelled:   *)
(* a file is the header and the tuples handed to writerows.                *)
(***************************************************************************)
EXTENDS Integers, Sequences, FiniteSets, TLC

VARIABLES
    base_url,     \* BASE_URL, the site origin
    site,         \* the listing pages of the site, in chain order
    phase,        \* caller of get_all_quotes: "main" or "authors"
    pc,           \* position of the program
    current_url,  \* get_all_quotes: current_url (<<>> is None)
    all_quotes,   \* get_all_quotes: all_quotes
    walk_log,     \* listing-page requests issued by the current walk
    quotes_file,  \* quotes.csv (<<>> while not written)
    quotes,       \* get_authors_bio: quotes
    qi,           \* get_authors_bio: position of the for loop in quotes
    authors_bio,  \* get_authors_bio: authors_bio, in insertion order
    bio_log,      \* bio requests issued by get_authors_bio
    authors_file, \* authors.csv (<<>> while not written)
    raised        \* the exception that ended the run, "none" if none

vars == <<base_url, site, phase, pc, current_url, all_quotes, walk_log,
          quotes_file, quotes, qi, authors_bio, bio_log, authors_file, raised>>

-----------------------------------------------------------------------------
(* Bounds of the model *)

MaxPages == 3
MaxQuotes == 2
MaxRunPages == 2
MaxDedupQuotes == 3
MaxNameLen == 3
MaxHrefLen == 3
MaxSlashes == 2

-----------------------------------------------------------------------------
(* Strings *)

None == <<>>

Some(x) == <<x>>

BASE_URL ==
    <<"h","t","t","p","s",":","/","/","q","u","o","t","e","s",".",
      "t","o","s","c","r","a","p","e",".","c","o","m">>

JaneAusten == <<"J","a","n","e"," ","A","u","s","t","e","n">>

MarkTwain == <<"M","a","r","k"," ","T","w","a","i","n">>

OBrien == <<"O","'","B","r","i","e","n">>

Alpha ==
    {"a","b","c","d","e","f","g","h","i","j","k","l","m","n","o","p","q",
     "r","s","t","u","v","w","x","y","z","A","B","C","D","E","F","G","H",
     "I","J","K","L","M","N","O","P","Q","R","S","T","U","V","W","X","Y","Z"}

Whitespace == {" ", "\t", "\n"}

Digits == <<"1","2","3","4","5","6","7","8","9">>

\* str.isalpha(): every character alphabetic and at least one character
IsAlpha(s) == Len(s) > 0 /\ \A i \in 1..Len(s) : s[i] \in Alpha

\* s[:-1]
DropLast(s) == SubSeq(s, 1, Len(s) - 1)

\* s[n:]
DropFirst(s, n) == SubSeq(s, n + 1, Len(s))

RECURSIVE RStrip(_, _)
\* s.rstrip(ch)
RStrip(s, ch) ==
    IF Len(s) > 0 /\ s[Len(s)] = ch THEN RStrip(DropLast(s), ch) ELSE s

RECURSIVE SplitOn(_, _)
\* s.split(sep) for a one-character sep: empty pieces are kept
SplitOn(s, sep) ==
    IF \A i \in 1..Len(s) : s[i] # sep
    THEN <<s>>
    ELSE LET k == CHOOSE i \in 1..Len(s) :
                      s[i] = sep /\ \A j \in 1..(i - 1) : s[j] # sep
         IN <<SubSeq(s, 1, k - 1)>> \o SplitOn(DropFirst(s, k), sep)

RECURSIVE SplitWhitespace(_)
\* s.split(): pieces between runs of whitespace, no empty piece
SplitWhitespace(s) ==
    IF Len(s) = 0 THEN <<>>
    ELSE IF s[1] \in Whitespace THEN SplitWhitespace(Tail(s))
    ELSE LET ends == {i \in 1..Len(s) : s[i] \in Whitespace}
             k == IF ends = {} THEN Len(s) + 1
                  ELSE CHOOSE i \in ends : \A j \in ends : i <= j
         IN <<SubSeq(s, 1, k - 1)>> \o SplitWhitespace(DropFirst(s, k - 1))

RECURSIVE Join(_, _)
\* sep.join(parts)
Join(sep, parts) ==
    IF Len(parts) = 0 THEN <<>>
    ELSE IF Len(parts) = 1 THEN parts[1]
    ELSE parts[1] \o sep \o Join(sep, Tail(parts))

RECURSIVE Concat(_)
\* the concatenation of a sequence of sequences
Concat(ss) == IF Len(ss) = 0 THEN <<>> ELSE ss[1] \o Concat(Tail(ss))

-----------------------------------------------------------------------------
(* Records *)

\* class Quote
Quote(text, author, tags) == [text |-> text, author |-> author, tags |-> tags]

\* class Author
Author(name, born_date, born_location, description) ==
    [name |-> name, born_date |-> born_date,
     born_location |-> born_location, description |-> description]

\* dataclasses.astuple of a Quote
AsTupleQuote(q) == <<q.text, q.author, q.tags>>

\* dataclasses.astuple of an Author
AsTupleAuthor(a) == <<a.name, a.born_date, a.born_location, a.description>>

\* the value a function returns, or the exception it raises
Return(v) == [exc |-> "none", val |-> v]

Raise(e) == [exc |-> e, val |-> <<>>]

-----------------------------------------------------------------------------
(* The web site *)

\* the authors of the sites of the whole run, and of the sites of one walk
Names == {JaneAusten, OBrien}

WalkNames == {JaneAusten}

QuoteDefects == {"no_text", "no_author", "no_keywords", "no_content"}

\* the href of the "next" anchor that leads to listing page p
Href(p) == <<"/","p","a","g","e","/">> \o <<Digits[p]>> \o <<"/">>

\* the content attribute of the .keywords element of the i-th quote of a page
KeywordsOf(i) == IF i = 1 THEN <<"l","i","f","e",",","w","i","t">> ELSE <<>>

\* one .quote fragment of a listing page; kind names the element or attribute
\* the fragment lacks ("ok": none)
Fragment(p, i, a, kind) ==
    [text     |-> IF kind = "no_text" THEN None ELSE Some(<<p, i>>),
     author   |-> IF kind = "no_author" THEN None ELSE Some(a),
     keywords |-> IF kind = "no_keywords" THEN None
                  ELSE Some([content |-> IF kind = "no_content" THEN None
                                         ELSE Some(KeywordsOf(i))])]

\* sequences of at most n of the names: the authors of the quotes of one page
AuthorSeqs(names, n) == UNION {[1..k -> names] : k \in 0..n}

\* the defects a site of P pages with these authors can have: none, the first
\* quote of a page lacking an element or attribute, a next anchor without href
Defects(P, authors) ==
    {None}
    \cup {Some([page |-> p, kind |-> k]) :
             p \in {q \in 1..P : Len(authors[q]) > 0}, k \in QuoteDefects}
    \cup {Some([page |-> p, kind |-> "no_href"]) : p \in 1..(P - 1)}

KindAt(defect, p, i) ==
    IF defect # None /\ defect[1].page = p /\ i = 1 /\ defect[1].kind \in QuoteDefects
    THEN defect[1].kind ELSE "ok"

\* a chain of P listing pages: page p links to page p + 1, the last to none
MakeSite(P, authors, defect) ==
    [p \in 1..P |->
        [quotes |-> [i \in 1..Len(authors[p]) |->
                        Fragment(p, i, authors[p][i], KindAt(defect, p, i))],
         next   |-> IF p = P THEN None
                    ELSE Some([href |->
                        IF defect # None /\ defect[1].page = p
                           /\ defect[1].kind = "no_href"
                        THEN None ELSE Some(Href(p + 1))])]]

Sites(maxPages, maxQuotes, names) ==
    UNION {UNION {{MakeSite(P, authors, d) : d \in Defects(P, authors)} :
                    authors \in [1..P -> AuthorSeqs(names, maxQuotes)]} :
             P \in 1..maxPages}

\* what a request that is not served has to parse: nothing
NoPage == [quotes |-> <<>>, next |-> None]

\* the listing page the server serves at url, 0 if none (the request fails)
PageAt(s, url) ==
    IF RStrip(url, "/") = BASE_URL THEN 1
    ELSE IF \E p \in 2..Len(s) : url = BASE_URL \o Href(p)
         THEN CHOOSE p \in 2..Len(s) : url = BASE_URL \o Href(p)
         ELSE 0

\* no fragment of the site lacks an element or attribute the parsers read
WellFormed(s) ==
    \A p \in 1..Len(s) :
        /\ \A i \in 1..Len(s[p].quotes) :
              LET f == s[p].quotes[i]
              IN /\ f.text # None /\ f.author # None /\ f.keywords # None
                 /\ f.keywords[1].content # None
        /\ s[p].next # None => s[p].next[1].href # None

-----------------------------------------------------------------------------
(* Parsers *)

parse_single_quote(quote_soup) ==
    IF quote_soup.keywords = None THEN Raise("TypeError")
    ELSE IF quote_soup.keywords[1].content = None THEN Raise("KeyError")
    ELSE LET tags_content == quote_soup.keywords[1].content[1]
             tags == IF Len(tags_content) > 0
                     THEN SplitOn(tags_content, ",") ELSE <<>>
         IN IF quote_soup.text = None THEN Raise("AttributeError")
            ELSE IF quote_soup.author = None THEN Raise("AttributeError")
            ELSE Return(Quote(quote_soup.text[1], quote_soup.author[1], tags))

RECURSIVE ParseQuotes(_)
\* [parse_single_quote(quote_soup) for quote_soup in quotes]
ParseQuotes(frags) ==
    IF Len(frags) = 0 THEN Return(<<>>)
    ELSE LET first == parse_single_quote(frags[1])
         IN IF first.exc # "none" THEN first
            ELSE LET rest == ParseQuotes(Tail(frags))
                 IN IF rest.exc # "none" THEN rest
                    ELSE Return(<<first.val>> \o rest.val)

\* as SinglePageQuotes, but select_one in place of select: the first quote only
SinglePageQuotes_FirstOnly(page, served) ==
    IF served /\ Len(page.quotes) > 0 THEN ParseQuotes(<<page.quotes[1]>>)
    ELSE Return(<<>>)

\* get_single_page_quotes once the request has been answered (served: with
\* the page, otherwise with a requests.RequestException)
SinglePageQuotes(page, served) ==
    IF served THEN ParseQuotes(page.quotes) ELSE Return(<<>>)

\* the URL get_next_page builds from the origin and the anchor's href
NextPageUrl(origin, next_page_url) == RStrip(origin, "/") \o next_page_url

\* as NextPage, but without the except clause
NextPage_NoExcept(origin, page, served) ==
    IF ~served THEN Raise("RequestException")
    ELSE IF page.next = None THEN Return(None)
    ELSE IF page.next[1].href = None THEN Raise("KeyError")
    ELSE Return(Some(NextPageUrl(origin, page.next[1].href[1])))

\* get_next_page once the request has been answered
NextPage(origin, page, served) ==
    IF ~served THEN Return(None)
    ELSE IF page.next = None THEN Return(None)
    ELSE IF page.next[1].href = None THEN Raise("KeyError")
    ELSE Return(Some(NextPageUrl(origin, page.next[1].href[1])))

-----------------------------------------------------------------------------
(* Author pages *)

\* an author page: the .author-details block, if any, with the four elements
\* it may hold; lacks names what is missing ("nothing", "details" or a field)
BioPage(lacks) ==
    [details |->
        IF lacks = "details" THEN None
        ELSE Some([title         |-> IF lacks = "title" THEN None
                                     ELSE Some(<<"A","u","t","h","o","r">>),
                   born_date     |-> IF lacks = "born_date" THEN None
                                     ELSE Some(<<"1","7","7","5">>),
                   born_location |-> IF lacks = "born_location" THEN None
                                     ELSE Some(<<"i","n"," ","U","K">>),
                   description   |-> IF lacks = "description" THEN None
                                     ELSE Some(<<"b","i","o">>)])]

BioLacks == {"nothing", "details", "title", "born_date", "born_location", "description"}

\* the answers to a bio request: served with some author page, or failed
BioResponses ==
    {[served |-> TRUE, page |-> BioPage(l)] : l \in BioLacks}
    \cup {[served |-> FALSE, page |-> BioPage("details")]}

EmptyAuthor == Author(<<>>, <<>>, <<>>, <<>>)

\* what went wrong with a bio request: "failed", "malformed" or "ok"
BioOutcome(resp) ==
    IF ~resp.served THEN "failed"
    ELSE IF resp.page.details = None THEN "malformed"
    ELSE LET d == resp.page.details[1]
         IN IF d.title = None \/ d.born_date = None
               \/ d.born_location = None \/ d.description = None
            THEN "malformed" ELSE "ok"

\* as get_author_bio, but a missing field alone is left empty
get_author_bio_PartialFill(resp) ==
    IF ~resp.served THEN EmptyAuthor
    ELSE IF resp.page.details = None THEN EmptyAuthor
    ELSE LET author_soup == resp.page.details[1]
             TextOf(field) == IF field = None THEN <<>> ELSE field[1]
         IN Author(TextOf(author_soup.title), TextOf(author_soup.born_date),
                   DropFirst(TextOf(author_soup.born_location), 3),
                   TextOf(author_soup.description))

\* get_author_bio once the request has been answered: the AttributeError of
\* a missing block or field is caught like the RequestException
get_author_bio(resp) ==
    IF ~resp.served THEN EmptyAuthor
    ELSE IF resp.page.details = None THEN EmptyAuthor
    ELSE LET author_soup == resp.page.details[1]
         IN IF author_soup.title = None THEN EmptyAuthor
            ELSE IF author_soup.born_date = None THEN EmptyAuthor
            ELSE IF author_soup.born_location = None THEN EmptyAuthor
            ELSE IF author_soup.description = None THEN EmptyAuthor
            ELSE Author(author_soup.title[1], author_soup.born_date[1],
                        DropFirst(author_soup.born_location[1], 3),
                        author_soup.description[1])

\* as FixedToken, but the non-alphabetic characters are the ones dropped
FixedToken_DropsPunctuation(name) ==
    IF IsAlpha(name) THEN name
    ELSE LET keep == {i \in 1..Len(name) : name[i] \in Alpha}
             Nth(n) == CHOOSE i \in keep : Cardinality({j \in keep : j <= i}) = n
         IN [n \in 1..Cardinality(keep) |-> name[Nth(n)]]

\* the token of an author name as it goes into the slug
FixedToken(name) == IF IsAlpha(name) THEN name ELSE DropLast(name)

\* fixed_name of get_authors_bio
FixedName(author_name) ==
    LET names == SplitWhitespace(author_name)
    IN Join(<<"-">>, [i \in 1..Len(names) |-> FixedToken(names[i])])

\* the URL of the bio request
AuthorPage(origin, fixed_name) ==
    origin \o <<"/","a","u","t","h","o","r","/">> \o fixed_name \o <<"/">>

\* the keys of authors_bio, in insertion order
Keys(d) == [i \in 1..Len(d) |-> d[i].key]

\* list(authors_bio.values())
Values(d) == [i \in 1..Len(d) |-> d[i].value]

\* as NotIn, but the name is looked up among the records, not among the keys
NotIn_ByRecordName(author_name, d) ==
    \A i \in 1..Len(d) : d[i].value.name # author_name

\* author_name not in authors_bio
NotIn(author_name, d) == \A i \in 1..Len(d) : d[i].key # author_name

\* authors_bio[author_name] = author_bio for a name that is not a key yet
Store(d, author_name, author_bio) ==
    Append(d, [key |-> author_name, value |-> author_bio])

-----------------------------------------------------------------------------
(* Files *)

QuotesHeader == <<"text", "author", "tags">>

AuthorsHeader == <<"name", "born_date", "born_location", "description">>

\* the file csv.writer produces from a header and the rows
File(header, rows) == Some([header |-> header, rows |-> rows])

-----------------------------------------------------------------------------
(* The program *)

\* get_all_quotes, lines 87-88
StartWalk(caller) ==
    /\ phase' = caller
    /\ pc' = "fetch_quotes"
    /\ current_url' = Some(base_url)
    /\ all_quotes' = <<>>
    /\ walk_log' = <<>>

Logged(url, kind, served) == [url |-> url, kind |-> kind, ok |-> served]

\* get_all_quotes, lines 91-92: one page's quotes are fetched, parsed and
\* appended; an exception of the parser leaves the loop and the program
GetSinglePageQuotes ==
    /\ pc = "fetch_quotes"
    /\ \E answered \in BOOLEAN :
          LET page_url == current_url[1]
              p == PageAt(site, page_url)
              served == answered /\ p # 0
              r == SinglePageQuotes(IF served THEN site[p] ELSE NoPage, served)
          IN /\ walk_log' = Append(walk_log, Logged(page_url, "quotes", served))
             /\ IF r.exc = "none"
                THEN /\ all_quotes' = all_quotes \o r.val
                     /\ pc' = "fetch_next"
                     /\ raised' = raised
                ELSE /\ all_quotes' = all_quotes
                     /\ pc' = "raised"
                     /\ raised' = r.exc
    /\ UNCHANGED <<base_url, site, phase, current_url, quotes_file, quotes, qi,
                   authors_bio, bio_log, authors_file>>

\* get_all_quotes, lines 93 and 90: the page is requested again for its next
\* link, and the loop goes on while the link is a non-empty string
GetNextPage ==
    /\ pc = "fetch_next"
    /\ \E answered \in BOOLEAN :
          LET url == current_url[1]
              p == PageAt(site, url)
              served == answered /\ p # 0
              r == NextPage(base_url, IF served THEN site[p] ELSE NoPage, served)
          IN /\ walk_log' = Append(walk_log, Logged(url, "next", served))
             /\ IF r.exc = "none"
                THEN /\ current_url' = r.val
                     /\ pc' = IF r.val # None /\ Len(r.val[1]) > 0
                              THEN "fetch_quotes" ELSE "walk_done"
                     /\ raised' = raised
                ELSE /\ current_url' = current_url
                     /\ pc' = "raised"
                     /\ raised' = r.exc
    /\ UNCHANGED <<base_url, site, phase, all_quotes, quotes_file, quotes, qi,
                   authors_bio, bio_log, authors_file>>

\* main, lines 128-131, then write_authors_bio_to_file up to the start of the
\* walk get_authors_bio makes itself (lines 118, 100-101, 87-88)
MainWrite ==
    /\ pc = "walk_done" /\ phase = "main"
    /\ quotes_file' = File(QuotesHeader,
                           [i \in 1..Len(all_quotes) |-> AsTupleQuote(all_quotes[i])])
    /\ authors_bio' = <<>>
    /\ StartWalk("authors")
    /\ UNCHANGED <<base_url, site, quotes, qi, bio_log, authors_file, raised>>

\* get_authors_bio, line 101: the walk has returned
AuthorsWalkReturns ==
    /\ pc = "walk_done" /\ phase = "authors"
    /\ quotes' = all_quotes
    /\ qi' = 1
    /\ pc' = "dedup"
    /\ UNCHANGED <<base_url, site, phase, current_url, all_quotes, walk_log,
                   quotes_file, authors_bio, bio_log, authors_file, raised>>

\* get_authors_bio, lines 103-105: a quote whose author is a key already
DedupSeen ==
    /\ pc = "dedup" /\ qi <= Len(quotes)
    /\ ~NotIn(quotes[qi].author, authors_bio)
    /\ qi' = qi + 1
    /\ UNCHANGED <<base_url, site, phase, pc, current_url, all_quotes, walk_log,
                   quotes_file, quotes, authors_bio, bio_log, authors_file, raised>>

\* get_authors_bio, lines 103-111: a quote of a new author, whose bio is
\* requested and stored
DedupNew ==
    /\ pc = "dedup" /\ qi <= Len(quotes)
    /\ NotIn(quotes[qi].author, authors_bio)
    /\ \E resp \in BioResponses :
          LET author_name == quotes[qi].author
              fixed_name == FixedName(author_name)
              author_page == AuthorPage(base_url, fixed_name)
              author_bio == get_author_bio(resp)
          IN /\ bio_log' = Append(bio_log, [name |-> author_name,
                                            url |-> author_page,
                                            outcome |-> BioOutcome(resp)])
             /\ authors_bio' = Store(authors_bio, author_name, author_bio)
    /\ qi' = qi + 1
    /\ UNCHANGED <<base_url, site, phase, pc, current_url, all_quotes, walk_log,
                   quotes_file, quotes, authors_file, raised>>

\* get_authors_bio, line 113, and write_authors_bio_to_file, lines 119-122
WriteAuthors ==
    /\ pc = "dedup" /\ qi > Len(quotes)
    /\ LET authors == Values(authors_bio)
       IN authors_file' = File(AuthorsHeader,
                               [i \in 1..Len(authors) |-> AsTupleAuthor(authors[i])])
    /\ pc' = "exit"
    /\ UNCHANGED <<base_url, site, phase, current_url, all_quotes, walk_log,
                   quotes_file, quotes, qi, authors_bio, bio_log, raised>>

-----------------------------------------------------------------------------
(* Specifications *)

\* the state in which main calls get_all_quotes (lines 135, 127, 87-88)
InitOn(origin, s) ==
    /\ base_url = origin
    /\ site = s
    /\ phase = "main"
    /\ pc = "fetch_quotes"
    /\ current_url = Some(origin)
    /\ all_quotes = <<>>
    /\ walk_log = <<>>
    /\ quotes_file = None
    /\ quotes = <<>>
    /\ qi = 1
    /\ authors_bio = <<>>
    /\ bio_log = <<>>
    /\ authors_file = None
    /\ raised = "none"

\* the whole run, on every site of at most MaxRunPages pages
Init == \E s \in Sites(MaxRunPages, MaxQuotes, Names) : InitOn(BASE_URL, s)

Next ==
    \/ GetSinglePageQuotes
    \/ GetNextPage
    \/ MainWrite
    \/ AuthorsWalkReturns
    \/ DedupSeen
    \/ DedupNew
    \/ WriteAuthors

Spec == Init /\ [][Next]_vars

\* one walk of get_all_quotes, on every site of at most MaxPages pages
InitWalk == \E s \in Sites(MaxPages, MaxQuotes, WalkNames) : InitOn(BASE_URL, s)

NextWalk ==
    \/ GetSinglePageQuotes
    \/ GetNextPage

SpecWalk == InitWalk /\ [][NextWalk]_vars

\* the program is sequential and takes its next step whenever it has one
SpecWalkLive == SpecWalk /\ WF_vars(NextWalk)

\* the state in which the for loop of get_authors_bio starts (line 103) when
\* the site is one page of quotes by these authors and no request has failed
InitLoop(authors) ==
    LET s == MakeSite(1, <<authors>>, None)
        parsed == ParseQuotes(s[1].quotes).val
    IN /\ base_url = BASE_URL
       /\ site = s
       /\ phase = "authors"
       /\ pc = "dedup"
       /\ current_url = None
       /\ all_quotes = parsed
       /\ walk_log = <<Logged(BASE_URL, "quotes", TRUE), Logged(BASE_URL, "next", TRUE)>>
       /\ quotes_file = File(QuotesHeader,
                             [i \in 1..Len(parsed) |-> AsTupleQuote(parsed[i])])
       /\ quotes = parsed
       /\ qi = 1
       /\ authors_bio = <<>>
       /\ bio_log = <<>>
       /\ authors_file = None
       /\ raised = "none"

NextLoop ==
    \/ DedupSeen
    \/ DedupNew
    \/ WriteAuthors

\* the loop of get_authors_bio on every sequence of at most MaxDedupQuotes
\* quotes by three authors
DedupNames == {JaneAusten, MarkTwain, OBrien}

InitDedup ==
    \E authors \in UNION {[1..k -> DedupNames] : k \in 0..MaxDedupQuotes} :
        InitLoop(authors)

SpecDedup == InitDedup /\ [][NextLoop]_vars

\* the loop of get_authors_bio on one or two quotes of one author, whose name
\* is any string of at most MaxNameLen of these characters
SlugChars == {"a", "'", " "}

SlugNames ==
    UNION {[1..k -> SlugChars] : k \in 0..MaxNameLen}
    \cup {JaneAusten, MarkTwain, OBrien}

InitSlug ==
    \E name \in SlugNames : \E k \in 1..2 : InitLoop([i \in 1..k |-> name])

SpecSlug == InitSlug /\ [][NextLoop]_vars

\* get_next_page on a page with any next anchor, for an origin with up to
\* MaxSlashes trailing slashes: the state after get_single_page_quotes has
\* found no quote on the first page
HrefChars == {"/", "p"}

Anchors ==
    {None, Some([href |-> None])}
    \cup {Some([href |-> Some(h)]) :
             h \in UNION {[1..k -> HrefChars] : k \in 1..MaxHrefLen}}

Origins == {BASE_URL \o [i \in 1..k |-> "/"] : k \in 0..MaxSlashes}

InitNextLink ==
    \E origin \in Origins, anchor \in Anchors :
        /\ base_url = origin
        /\ site = <<[quotes |-> <<>>, next |-> anchor]>>
        /\ phase = "main"
        /\ pc = "fetch_next"
        /\ current_url = Some(origin)
        /\ all_quotes = <<>>
        /\ walk_log = <<Logged(origin, "quotes", TRUE)>>
        /\ quotes_file = None
        /\ quotes = <<>>
        /\ qi = 1
        /\ authors_bio = <<>>
        /\ bio_log = <<>>
        /\ authors_file = None
        /\ raised = "none"

NextLookup == GetNextPage

SpecNextLink == InitNextLink /\ [][NextLookup]_vars

-----------------------------------------------------------------------------
(* Properties *)

\* no listing-page request of the current walk has failed
NoFailure == \A i \in 1..Len(walk_log) : walk_log[i].ok

\* the number of listing-page requests of the current walk
ListingFetches == Len(walk_log)

\* the pages whose quotes the current walk has appended: one per request of
\* get_single_page_quotes, but for the one whose parsing raised
Processed ==
    LET n == Cardinality({i \in 1..Len(walk_log) : walk_log[i].kind = "quotes"})
    IN IF pc = "raised" /\ walk_log[Len(walk_log)].kind = "quotes" THEN n - 1 ELSE n

RECURSIVE QuotesBefore(_, _)
\* the number of quote fragments on the pages before page p
QuotesBefore(s, p) ==
    IF p <= 1 THEN 0 ELSE QuotesBefore(s, p - 1) + Len(s[p - 1].quotes)

RECURSIVE Distinct(_)
\* the distinct elements of a sequence, in order of first occurrence
Distinct(seq) ==
    IF Len(seq) = 0 THEN <<>>
    ELSE LET init == Distinct(DropLast(seq))
             last == seq[Len(seq)]
         IN IF \E i \in 1..Len(init) : init[i] = last THEN init
            ELSE Append(init, last)

AuthorsOf(qs) == [i \in 1..Len(qs) |-> qs[i].author]

\* C1: no failure propagates out of get_single_page_quotes, get_next_page or
\* get_author_bio, whatever fails and whatever a page lacks, and a run that
\* has ended has written both files.
C1_NoFailurePropagates ==
    /\ raised = "none"
    /\ pc = "exit" => quotes_file # None /\ authors_file # None

\* C2: while no request fails, the accumulator is the concatenation, in page
\* order, of the quotes of the pages processed so far, a page of N fragments
\* giving N records in document order; when the walk is done these are all
\* pages of the site.
C2_AccumulatorInPageOrder ==
    NoFailure =>
        /\ Processed <= Len(site)
        /\ Len(all_quotes) = QuotesBefore(site, Processed + 1)
        /\ \A p \in 1..Processed : \A i \in 1..Len(site[p].quotes) :
              LET q == all_quotes[QuotesBefore(site, p) + i]
              IN /\ q.text = site[p].quotes[i].text[1]
                 /\ q.author = site[p].quotes[i].author[1]
        /\ pc = "walk_done" => Processed = Len(site)

C2_Witness ==
    /\ pc = "walk_done" /\ NoFailure
    /\ Len(site) = 3
    /\ Len(site[1].quotes) = 2 /\ Len(site[2].quotes) = 2 /\ Len(site[3].quotes) = 1
    /\ [i \in 1..5 |-> all_quotes[i].text] = <<<<1, 1>>, <<1, 2>>, <<2, 1>>, <<2, 2>>, <<3, 1>>>>

\* C3: a walk without failures over a well-formed site of P pages issues
\* exactly P listing-page requests.
C3_OneFetchPerPage ==
    pc = "walk_done" /\ NoFailure /\ WellFormed(site) => ListingFetches = Len(site)

\* C4: on a well-formed site the walk reaches Done under every pattern of
\* request failures: no failed request raises, a lookup whose request failed
\* yields None, and the loop ends exactly when the lookup yields None.
C4_WalkTerminates ==
    /\ [](WellFormed(site) => raised = "none")
    /\ [][pc = "fetch_next" =>
             /\ (pc' = "walk_done") = (raised' = "none" /\ current_url' = None)
             /\ ~walk_log'[Len(walk_log')].ok => current_url' = None /\ raised' = "none"]_vars
    /\ [][pc = "fetch_quotes" /\ ~walk_log'[Len(walk_log')].ok =>
             pc' = "fetch_next" /\ all_quotes' = all_quotes]_vars
    /\ (WellFormed(site) ~> pc = "walk_done")

C4_Witness ==
    /\ pc = "walk_done" /\ Len(site) >= 2 /\ Len(all_quotes) > 0
    /\ \E i \in 1..Len(walk_log) :
          /\ walk_log[i].url = BASE_URL \o Href(2)
          /\ walk_log[i].kind = "quotes"
          /\ ~walk_log[i].ok

\* C5: when the walk over a well-formed site is done, the accumulator holds
\* the quotes of a contiguous prefix of the page chain: no quote of a page
\* after a page whose quotes were lost.
C5_ContiguousPrefix ==
    pc = "walk_done" /\ WellFormed(site) =>
        \E k \in 0..Len(site) :
            all_quotes = Concat([p \in 1..k |-> ParseQuotes(site[p].quotes).val])

\* C6: at every step of the loop of get_authors_bio the bio requests issued,
\* the keys of the map and the distinct author names seen so far are the same
\* names in first-seen order, one of each; the result holds one record per
\* distinct name in that order.
C6_OneRecordOneFetchPerName ==
    pc \in {"dedup", "exit"} =>
        LET seen == Distinct(AuthorsOf(SubSeq(quotes, 1, qi - 1)))
        IN /\ Keys(authors_bio) = seen
           /\ [j \in 1..Len(bio_log) |-> bio_log[j].name] = seen
           /\ Len(bio_log) = Cardinality({quotes[i].author : i \in 1..(qi - 1)})
           /\ pc = "exit" =>
                 /\ qi = Len(quotes) + 1
                 /\ authors_file[1].rows =
                       [j \in 1..Len(seen) |-> AsTupleAuthor(authors_bio[j].value)]

C6_Witness ==
    /\ pc = "exit"
    /\ AuthorsOf(quotes) = <<JaneAusten, JaneAusten, MarkTwain>>
    /\ Keys(authors_bio) = <<JaneAusten, MarkTwain>>
    /\ Len(bio_log) = 2
    /\ Len(authors_file[1].rows) = 2

\* C7: a bio request that fails, or is answered with a page that lacks the
\* details block or one of its fields, stores the all-empty Author under the
\* author's name; no record is partially filled and no name is requested twice.
C7_PlaceholderNoRetry ==
    /\ Len(authors_bio) = Len(bio_log)
    /\ \A j \in 1..Len(bio_log) :
          /\ authors_bio[j].key = bio_log[j].name
          /\ bio_log[j].outcome # "ok" => authors_bio[j].value = EmptyAuthor
          /\ bio_log[j].outcome = "ok" =>
                /\ authors_bio[j].value.name # <<>>
                /\ authors_bio[j].value.born_date # <<>>
                /\ authors_bio[j].value.description # <<>>
          /\ \A k \in 1..Len(bio_log) : bio_log[k].name = bio_log[j].name => k = j

C7_Witness ==
    /\ pc = "exit"
    /\ Len(bio_log) = 2
    /\ bio_log[1].outcome = "failed" /\ bio_log[2].outcome = "malformed"
    /\ authors_bio[1].value = EmptyAuthor /\ authors_bio[2].value = EmptyAuthor
    /\ AuthorsOf(quotes) = <<JaneAusten, MarkTwain, JaneAusten>>

\* the string without its leading ch characters
LStrip(str, ch) ==
    LET other == {i \in 1..Len(str) : str[i] # ch}
    IN IF other = {} THEN <<>>
       ELSE DropFirst(str, (CHOOSE i \in other : \A j \in other : i <= j) - 1)

\* C8: a lookup whose request is served returns None exactly when the page
\* has no next anchor, and otherwise the origin and the href with exactly one
\* slash at the seam.
C8_OneSlashAtSeam ==
    pc # "fetch_next" /\ walk_log[Len(walk_log)].ok /\ raised = "none" =>
        LET anchor == site[1].next
        IN /\ (current_url = None) = (anchor = None)
           /\ anchor # None =>
                 current_url[1] = RStrip(base_url, "/") \o <<"/">>
                                     \o LStrip(anchor[1].href[1], "/")

\* C9: the bio URL is origin + "/author/" + slug + "/", and the pieces of the
\* slug between hyphens are the whitespace-separated tokens of the name, each
\* unchanged when all its characters are alphabetic and without its last
\* character otherwise.
C9_SlugDropsLastCharacter ==
    \A j \in 1..Len(bio_log) :
        LET name == bio_log[j].name
            url == bio_log[j].url
            tokens == SplitWhitespace(name)
            prefix == base_url \o <<"/","a","u","t","h","o","r","/">>
            slug == SubSeq(url, Len(prefix) + 1, Len(url) - 1)
            pieces == SplitOn(slug, "-")
        IN /\ SubSeq(url, 1, Len(prefix)) = prefix
           /\ url[Len(url)] = "/"
           /\ Len(url) = Len(prefix) + Len(slug) + 1
           /\ IF tokens = <<>> THEN slug = <<>>
              ELSE /\ Len(pieces) = Len(tokens)
                   /\ \A i \in 1..Len(tokens) :
                         IF \A c \in 1..Len(tokens[i]) : tokens[i][c] \in Alpha
                         THEN pieces[i] = tokens[i]
                         ELSE /\ Len(pieces[i]) = Len(tokens[i]) - 1
                              /\ \A c \in 1..Len(pieces[i]) : pieces[i][c] = tokens[i][c]
           /\ name = JaneAusten =>
                 slug = <<"J","a","n","e","-","A","u","s","t","e","n">>
           /\ name = OBrien => slug = <<"O","'","B","r","i","e">>

C9_Witness ==
    /\ pc = "exit"
    /\ Len(bio_log) = 1
    /\ bio_log[1].name = OBrien
    /\ bio_log[1].url =
          BASE_URL \o <<"/","a","u","t","h","o","r","/","O","'","B","r","i","e","/">>

\* C10: when the run has ended, the authors file has one row per distinct
\* author name among the rows of the quotes file, in first-seen order.
C10_AuthorsOfTheQuotesFile ==
    pc = "exit" =>
        LET rows == quotes_file[1].rows
            names == Distinct([i \in 1..Len(rows) |-> rows[i][2]])
        IN /\ Keys(authors_bio) = names
           /\ Len(authors_file[1].rows) = Len(names)

====
